---- MODULE Spec2Model ----
(***************************************************************************)
(* Model of src/main.rs: insertion_sort, quicksort, merge_sort, merge and  *)
(* is_sorted.  Rust slices are 0-indexed; TLA+ sequences are 1-indexed, so *)
(* At(s, k) reads the Rust element s[k].                                   *)
(***************************************************************************)
EXTENDS Integers, Sequences, FiniteSets, Bags, TLC

VARIABLES op, input, v, xs, ys, pc, i, j, stack, result, ret, overflow_checks

vars == <<op, input, v, xs, ys, pc, i, j, stack, result, ret, overflow_checks>>

\* ---------------------------------------------------------------- bounds
MaxLen == 4
MaxVal == 2
\* Width of usize in the model.  Only is_sorted's `len - 1` depends on it.
UsizeBits == 16

Values == 0..MaxVal
Seqs == UNION {[1..n -> Values] : n \in 0..MaxLen}
Ops == {"insertion_sort", "quicksort", "merge_sort", "merge", "is_sorted"}

\* ------------------------------------------------- slices and arithmetic
At(s, k) == s[k + 1]

\* &s[from..to]
Slice(s, from, to) == SubSeq(s, from + 1, to)

\* the range check Rust makes on s[from..to] for a slice of length len
SliceInBounds(len, from, to) == from <= to /\ to <= len

\* usize subtraction in a build without overflow checks
wrapping_sub(a, b) == (a - b + 2^UsizeBits) % (2^UsizeBits)

\* ------------------------------------------------- specification helpers
NonDecreasing(s) == \A a, b \in 1..Len(s) : a < b => s[a] <= s[b]

AdjacentOrdered(s) == \A a \in 1..(Len(s) - 1) : s[a] <= s[a + 1]

BagOf(s) == [x \in {s[k] : k \in 1..Len(s)} |-> Cardinality({k \in 1..Len(s) : s[k] = x})]

SameElements(s, t) == Len(s) = Len(t) /\ BagOf(s) = BagOf(t)

\* ------------------------------------------------------- insertion_sort
ShouldMoveLeftSkipFirst(s, k) == k > 1 /\ At(s, k - 1) > At(s, k)

ShouldMoveLeftReversed(s, k) == k > 0 /\ At(s, k - 1) < At(s, k)

\* while j > 0 && v[j-1] > v[j]
ShouldMoveLeft(s, k) == k > 0 /\ At(s, k - 1) > At(s, k)

swapOverwrite(s, a, b) == [s EXCEPT ![a + 1] = s[b + 1]]

\* v.swap(a, b)
swap(s, a, b) == [s EXCEPT ![a + 1] = s[b + 1], ![b + 1] = s[a + 1]]

\* insertion_sort(&mut v) is entered: the for loop starts at i = 0
InsertionSortCall ==
    /\ op = "insertion_sort"
    /\ pc = "start"
    /\ i' = 0
    /\ pc' = "outer"
    /\ UNCHANGED <<op, input, v, xs, ys, j, stack, result, ret, overflow_checks>>

\* for i in 0..v.len() : one more iteration, let mut j = i
InsertionSortOuter ==
    /\ pc = "outer"
    /\ i < Len(v)
    /\ j' = i
    /\ pc' = "inner"
    /\ UNCHANGED <<op, input, v, xs, ys, i, stack, result, ret, overflow_checks>>

\* the for loop is exhausted and insertion_sort returns
InsertionSortReturn ==
    /\ pc = "outer"
    /\ i >= Len(v)
    /\ pc' = "done"
    /\ UNCHANGED <<op, input, v, xs, ys, i, j, stack, result, ret, overflow_checks>>

\* the while condition holds: v.swap(j-1, j); j -= 1
InsertionSortSwap ==
    /\ pc = "inner"
    /\ ShouldMoveLeft(v, j)
    /\ v' = swap(v, j - 1, j)
    /\ j' = j - 1
    /\ UNCHANGED <<op, input, xs, ys, pc, i, stack, result, ret, overflow_checks>>

\* the while condition fails: next iteration of the for loop
InsertionSortInnerExit ==
    /\ pc = "inner"
    /\ ~ShouldMoveLeft(v, j)
    /\ i' = i + 1
    /\ pc' = "outer"
    /\ UNCHANGED <<op, input, v, xs, ys, j, stack, result, ret, overflow_checks>>

\* ------------------------------------------------------------ quicksort
\* A frame is one activation of quicksort on the sub-slice
\* v[base .. base + length) of the caller's array; `at` is its position.
Frame(base, length, smaller, at) ==
    [base |-> base, length |-> length, smaller |-> smaller, at |-> at]

Top == stack[Len(stack)]

Pop == SubSeq(stack, 1, Len(stack) - 1)

ReplaceTop(f) == [stack EXCEPT ![Len(stack)] = f]

IsBaseCaseOnlyEmpty(length) == length < 1

\* if length < 2 { return; }
IsBaseCase(length) == length < 2

\* let smaller = 0;
ChosenSmaller == 0

\* quicksort(&mut v) is called by the client
QuicksortCall ==
    /\ op = "quicksort"
    /\ pc = "start"
    /\ stack' = <<Frame(0, Len(v), 0, "entry")>>
    /\ pc' = "running"
    /\ UNCHANGED <<op, input, v, xs, ys, i, j, result, ret, overflow_checks>>

\* length < 2: return at once
QuicksortBaseCase ==
    /\ pc = "running"
    /\ Len(stack) > 0
    /\ Top.at = "entry"
    /\ IsBaseCase(Top.length)
    /\ stack' = Pop
    /\ pc' = IF Len(stack) = 1 THEN "done" ELSE "running"
    /\ UNCHANGED <<op, input, v, xs, ys, i, j, result, ret, overflow_checks>>

\* "choose a pivot and do the organizing": the code moves nothing and
\* sets smaller = 0
QuicksortPartition ==
    /\ pc = "running"
    /\ Len(stack) > 0
    /\ Top.at = "entry"
    /\ ~IsBaseCase(Top.length)
    /\ stack' = ReplaceTop(Frame(Top.base, Top.length, ChosenSmaller, "sort_front"))
    /\ UNCHANGED <<op, input, v, xs, ys, pc, i, j, result, ret, overflow_checks>>

\* quicksort(&mut v[0..smaller])
QuicksortSortFront ==
    /\ pc = "running"
    /\ Len(stack) > 0
    /\ Top.at = "sort_front"
    /\ IF SliceInBounds(Top.length, 0, Top.smaller)
       THEN /\ stack' = Append(ReplaceTop([Top EXCEPT !.at = "sort_back"]),
                               Frame(Top.base, Top.smaller, 0, "entry"))
            /\ pc' = pc
       ELSE /\ stack' = stack
            /\ pc' = "panicked"
    /\ UNCHANGED <<op, input, v, xs, ys, i, j, result, ret, overflow_checks>>

\* quicksort(&mut v[smaller+1..length])
QuicksortSortBack ==
    /\ pc = "running"
    /\ Len(stack) > 0
    /\ Top.at = "sort_back"
    /\ IF SliceInBounds(Top.length, Top.smaller + 1, Top.length)
       THEN /\ stack' = Append(ReplaceTop([Top EXCEPT !.at = "return"]),
                               Frame(Top.base + Top.smaller + 1,
                                     Top.length - (Top.smaller + 1), 0, "entry"))
            /\ pc' = pc
       ELSE /\ stack' = stack
            /\ pc' = "panicked"
    /\ UNCHANGED <<op, input, v, xs, ys, i, j, result, ret, overflow_checks>>

\* end of the function body
QuicksortReturn ==
    /\ pc = "running"
    /\ Len(stack) > 0
    /\ Top.at = "return"
    /\ stack' = Pop
    /\ pc' = IF Len(stack) = 1 THEN "done" ELSE "running"
    /\ UNCHANGED <<op, input, v, xs, ys, i, j, result, ret, overflow_checks>>

\* ------------------------------------------------- merge and merge_sort
\* merge(xs, ys): the body is the expression `xs`
merge(left, right) == left

RECURSIVE merge_sort(_)
merge_sort(s) ==
    LET len == Len(s)
    IN  IF len = 0 THEN <<>>
        ELSE IF len = 1 THEN <<At(s, 0)>>
        ELSE LET middle == len \div 2
                 left   == merge_sort(Slice(s, 0, middle))
                 right  == merge_sort(Slice(s, middle, len))
             IN  merge(left, right)

MergeSortCall ==
    /\ op = "merge_sort"
    /\ pc = "start"
    /\ result' = merge_sort(v)
    /\ pc' = "done"
    /\ UNCHANGED <<op, input, v, xs, ys, i, j, stack, ret, overflow_checks>>

MergeCall ==
    /\ op = "merge"
    /\ pc = "start"
    /\ result' = merge(xs, ys)
    /\ pc' = "done"
    /\ UNCHANGED <<op, input, v, xs, ys, i, j, stack, ret, overflow_checks>>

\* ------------------------------------------------------------ is_sorted
Returned(b) == [panicked |-> FALSE, value |-> b]

Panicked == [panicked |-> TRUE, value |-> FALSE]

OutOfOrderOrEqual(a, b) == a >= b

\* slice[i] > slice[i+1]
OutOfOrder(a, b) == a > b

\* for i in 0..end { if slice[i] > slice[i+1] { return false; } } true
RECURSIVE is_sorted_loop(_, _, _)
is_sorted_loop(slice, k, end) ==
    IF k >= end THEN Returned(TRUE)
    ELSE IF k >= Len(slice) \/ k + 1 >= Len(slice) THEN Panicked
    ELSE IF OutOfOrder(At(slice, k), At(slice, k + 1)) THEN Returned(FALSE)
    ELSE is_sorted_loop(slice, k + 1, end)

\* len - 1 on usize: with overflow checks 0 - 1 panics, without them it
\* wraps around
is_sorted(slice, checks) ==
    LET len == Len(slice)
    IN  IF len < 1 /\ checks THEN Panicked
        ELSE is_sorted_loop(slice, 0, wrapping_sub(len, 1))

IsSortedCall ==
    /\ op = "is_sorted"
    /\ pc = "start"
    /\ LET r == is_sorted(v, overflow_checks)
       IN  /\ ret' = r.value
           /\ pc' = IF r.panicked THEN "panicked" ELSE "done"
    /\ UNCHANGED <<op, input, v, xs, ys, i, j, stack, result, overflow_checks>>

\* -------------------------------------------------------- specification
Init ==
    /\ op \in Ops
    /\ overflow_checks \in BOOLEAN
    /\ \/ /\ op = "merge"
          /\ xs \in {s \in Seqs : NonDecreasing(s)}
          /\ ys \in {s \in Seqs : NonDecreasing(s)}
          /\ v = <<>>
       \/ /\ op # "merge"
          /\ v \in Seqs
          /\ xs = <<>>
          /\ ys = <<>>
    /\ input = v
    /\ pc = "start"
    /\ i = 0
    /\ j = 0
    /\ stack = <<>>
    /\ result = <<>>
    /\ ret = FALSE

Next ==
    \/ InsertionSortCall
    \/ InsertionSortOuter
    \/ InsertionSortReturn
    \/ InsertionSortSwap
    \/ InsertionSortInnerExit
    \/ QuicksortCall
    \/ QuicksortBaseCase
    \/ QuicksortPartition
    \/ QuicksortSortFront
    \/ QuicksortSortBack
    \/ QuicksortReturn
    \/ MergeSortCall
    \/ MergeCall
    \/ IsSortedCall

Spec == Init /\ [][Next]_vars

\* Every operation runs to completion on the calling thread, so a step
\* that can be taken is taken.
FairSpec == Spec /\ WF_vars(Next)

\* ------------------------------------------------------------- properties
Sorters == {"insertion_sort", "quicksort", "merge_sort"}

\* what a sorter hands back: merge_sort returns a new vector, the in-place
\* sorters leave their output in v
Output == IF op = "merge_sort" THEN result ELSE v

\* C1: after insertion_sort(v) returns, v is in non-decreasing order:
\* for all 0 <= i < j < len(v), v[i] <= v[j].
C1_InsertionSortSorts ==
    (op = "insertion_sort" /\ pc = "done") => NonDecreasing(v)

\* C1 witness: insertion_sort has returned on an unsorted input of length >= 3.
C1_Witness ==
    /\ op = "insertion_sort"
    /\ pc = "done"
    /\ Len(input) >= 3
    /\ ~NonDecreasing(input)

\* C2: after quicksort(v) returns, v is in non-decreasing order.
C2_QuicksortSorts ==
    (op = "quicksort" /\ pc = "done") => NonDecreasing(v)

\* C3: merge_sort(v) returns a sequence with the same multiset of elements
\* (hence the same length) as v, in non-decreasing order.
C3_MergeSortSortsSameElements ==
    (op = "merge_sort" /\ pc = "done") =>
        (SameElements(result, input) /\ NonDecreasing(result))

\* C4: for insertion_sort and quicksort, the multiset of elements and the
\* length of the sequence after the call equal those before the call.
C4_InPlaceSortersPreserveElements ==
    (op \in {"insertion_sort", "quicksort"} /\ pc = "done") =>
        SameElements(v, input)

\* C4 witness: an in-place sorter has returned after actually moving
\* elements of an input that holds a repeated value.
C4_Witness ==
    /\ op = "insertion_sort"
    /\ pc = "done"
    /\ v # input
    /\ \E a, b \in 1..Len(input) : a # b /\ input[a] = input[b]

\* C5: is_sorted on the empty sequence completes without a runtime fault
\* and returns true.
C5_IsSortedEmptyReturnsTrue ==
    (op = "is_sorted" /\ input = <<>> /\ pc # "start") =>
        (pc = "done" /\ ret = TRUE)

\* C6: on every sequence of length >= 1, is_sorted returns, and returns
\* true iff every adjacent pair satisfies slice[i] <= slice[i+1].
C6_IsSortedIffAdjacentOrdered ==
    (op = "is_sorted" /\ Len(input) >= 1 /\ pc # "start") =>
        (pc = "done" /\ (ret = TRUE <=> AdjacentOrdered(input)))

\* C6 witness: is_sorted has returned false on a sequence whose first pair
\* is in order and a later pair is not.
C6_Witness ==
    /\ op = "is_sorted"
    /\ pc = "done"
    /\ ret = FALSE
    /\ Len(input) >= 3
    /\ input[1] <= input[2]

\* C7: for non-decreasing xs and ys, merge(xs, ys) has length
\* len(xs) + len(ys), is non-decreasing, and its multiset of elements is the
\* union of those of xs and ys.
C7_MergeMergesSortedInputs ==
    (op = "merge" /\ pc = "done") =>
        /\ Len(result) = Len(xs) + Len(ys)
        /\ NonDecreasing(result)
        /\ BagOf(result) = BagOf(xs) (+) BagOf(ys)

\* C8: each of the three sorters, applied to a sequence already in
\* non-decreasing order, yields the identical sequence.
C8_SortersKeepSortedInput ==
    (op \in Sorters /\ pc = "done" /\ NonDecreasing(input)) =>
        Output = input

\* One step of quicksort that makes a recursive call from the activation
\* `parent` keeps to the rules of the recursion.
QuicksortCallsShrink ==
    (op = "quicksort" /\ Len(stack) >= 1 /\ Len(stack') = Len(stack) + 1) =>
        LET parent == stack[Len(stack)]
            child  == stack'[Len(stack')]
            pivot  == parent.base + parent.smaller
        IN  /\ parent.length >= 2
            /\ child.length < parent.length
            /\ parent.base <= child.base
            /\ child.base + child.length <= parent.base + parent.length
            /\ ~(child.base <= pivot /\ pivot < child.base + child.length)

\* C9: quicksort terminates: a call on a sequence of length < 2 does not
\* recurse, every recursive call of a call on length n >= 2 is on a
\* sub-slice of length < n inside 0..n that excludes the index `smaller`,
\* no slicing faults, and the top-level call returns.
C9_QuicksortTerminates ==
    /\ [][QuicksortCallsShrink /\ (op = "quicksort" => pc' # "panicked")]_vars
    /\ (op = "quicksort" => <>(pc = "done"))

\* C9 witness: quicksort on a sequence of length >= 3 is at least two
\* recursive calls deep, in the back region.
C9_Witness ==
    /\ op = "quicksort"
    /\ pc = "running"
    /\ Len(stack) >= 3
    /\ stack[1].length >= 3
    /\ stack[Len(stack)].base >= 2

\* C10: at the start of every outer iteration i of insertion_sort the
\* prefix v[0..i) is non-decreasing; in the inner loop at position j the
\* only adjacent pair of v[0..=i] that may be out of order is (j-1, j), and
\* the indices read satisfy 0 <= j-1 < j < len.
C10_InsertionSortLoopInvariant ==
    /\ (op = "insertion_sort" /\ pc = "outer" /\ i < Len(v)) =>
           NonDecreasing(Slice(v, 0, i))
    /\ (op = "insertion_sort" /\ pc = "inner") =>
           /\ 0 <= j /\ j <= i /\ i < Len(v)
           /\ \A k \in 1..i : k # j => At(v, k - 1) <= At(v, k)
           /\ j > 0 => (0 <= j - 1 /\ j - 1 < j /\ j < Len(v))

\* C10 witness: the inner loop is part-way through bubbling an element
\* left, with the pair (j-1, j) out of order.
C10_Witness ==
    /\ op = "insertion_sort"
    /\ pc = "inner"
    /\ 0 < j /\ j < i
    /\ At(v, j - 1) > At(v, j)

====
